---- MODULE Spec2Model ----
(***************************************************************************)
(* A model of the transform stage of the financial ETL pipeline            *)
(* (src/src/transform/data_transformer.py, class DataTransformer), of the  *)
(* warehouse loader (src/src/load/bigquery_loader.py, class                *)
(* BigQueryLoader) and of a run of the four transforms on one transformer  *)
(* (dags/financial_etl_dag.py, transform_all_data), and of the runs of the  *)
(* DAG financial_market_etl_pipeline (dags/financial_etl_dag.py).          *)
(*                                                                         *)
(* A dataset (pandas DataFrame) is a sequence of rows in row order; a row  *)
(* is a record of cells plus idx, the row's index label, which pandas      *)
(* keeps through dropna, boolean filtering and drop_duplicates.            *)
(*                                                                         *)
(* A raw cell is [t, n, s]: t = "none" a missing value (None/NaN),         *)
(* t = "num" the number n, t = "str" the text s, t = "ts" a parsed         *)
(* timestamp of day n.  A float cell is [k, n, d]: k = "nan" the missing   *)
(* value, k = "inf" an infinity of sign n, k = "fin" the rational n/d in   *)
(* lowest terms with d > 0.  Float arithmetic is modelled exactly          *)
(* (rationals), with the IEEE rules for NaN, infinities and division by    *)
(* zero that numpy applies to float columns.                               *)
(***************************************************************************)
EXTENDS Integers, Sequences, FiniteSets, TLC

VARIABLES
    domain,       \* which transform the caller is about to run / has run
    raw,          \* the dataset as the caller built it (kept for reference)
    df,           \* the caller's dataset object (the transforms assign into it)
    title_dtype,  \* dtype of the caller's title column: "object" or "float64"
    out,          \* the dataset the transform returned
    now,          \* datetime.now() of the call, in days
    pc,           \* "ready", "returned" or "raised"
    tables,       \* the warehouse: table name -> the rows the table holds
    call,         \* the last call of a loader method and how it ended
    session,      \* one transformer, four datasets: domain -> [raw, df, out, pc]
    dag           \* the runs of the DAG: tasks, temp directory, XCom (see below)

vars == <<domain, raw, df, title_dtype, out, now, pc, tables, call, session, dag>>

\* the state of the parts a specification does not exercise
NoTables == <<>>
NoCall == [method |-> "none"]
NoSession == <<>>
NoDag == <<>>

(***************************************************************************)
(* Bounds of the model.                                                    *)
(***************************************************************************)
MaxStockRows == 2
MaxSeriesLen == 32
MaxNewsRows == 2
MaxCryptoRows == 2
MaxTitleLen == 5

(***************************************************************************)
(* Raw cells.                                                              *)
(***************************************************************************)
NoneCell == [t |-> "none", n |-> 0, s |-> ""]
NumCell(v) == [t |-> "num", n |-> v, s |-> ""]
StrCell(str) == [t |-> "str", n |-> 0, s |-> str]
TsCell(day) == [t |-> "ts", n |-> day, s |-> ""]

(***************************************************************************)
(* Float cells and their arithmetic.                                       *)
(***************************************************************************)
Abs(i) == IF i < 0 THEN -i ELSE i

Sign(i) == IF i < 0 THEN -1 ELSE IF i > 0 THEN 1 ELSE 0

RECURSIVE GCD(_, _)
GCD(a, b) == IF b = 0 THEN a ELSE GCD(b, a % b)

NaN == [k |-> "nan", n |-> 0, d |-> 1]
Inf(sgn) == [k |-> "inf", n |-> sgn, d |-> 1]

Fin(num, den) ==
    LET g == GCD(Abs(num), Abs(den))
        s == Sign(den)
    IN  [k |-> "fin", n |-> (s * num) \div g, d |-> (s * den) \div g]

IsNaN(a) == a.k = "nan"
IsInf(a) == a.k = "inf"
IsFin(a) == a.k = "fin"

FNeg(a) == IF IsNaN(a) THEN NaN ELSE IF IsInf(a) THEN Inf(-a.n) ELSE Fin(-a.n, a.d)

FAdd(a, b) ==
    IF IsNaN(a) \/ IsNaN(b) THEN NaN
    ELSE IF IsInf(a) /\ IsInf(b) THEN (IF a.n = b.n THEN a ELSE NaN)
    ELSE IF IsInf(a) THEN a
    ELSE IF IsInf(b) THEN b
    ELSE Fin(a.n * b.d + b.n * a.d, a.d * b.d)

FSub(a, b) == FAdd(a, FNeg(b))

FMul(a, b) ==
    IF IsNaN(a) \/ IsNaN(b) THEN NaN
    ELSE IF IsInf(a) \/ IsInf(b)
         THEN (IF Sign(a.n) * Sign(b.n) = 0 THEN NaN ELSE Inf(Sign(a.n) * Sign(b.n)))
    ELSE Fin(a.n * b.n, a.d * b.d)

\* numpy true division: x/0 is +-inf for x # 0 and NaN for x = 0; no error is raised
FDiv(a, b) ==
    IF IsNaN(a) \/ IsNaN(b) THEN NaN
    ELSE IF IsInf(a) /\ IsInf(b) THEN NaN
    ELSE IF IsInf(a) THEN Inf(IF b.n < 0 THEN -a.n ELSE a.n)
    ELSE IF IsInf(b) THEN Fin(0, 1)
    ELSE IF b.n = 0 THEN (IF a.n = 0 THEN NaN ELSE Inf(Sign(a.n)))
    ELSE Fin(a.n * b.d, a.d * b.n)

\* comparisons with NaN are False
FGt(a, b) ==
    /\ ~IsNaN(a) /\ ~IsNaN(b)
    /\ IF IsInf(a) THEN a.n = 1 /\ ~(IsInf(b) /\ b.n = 1)
       ELSE IF IsInf(b) THEN b.n = -1
       ELSE a.n * b.d > b.n * a.d

FGe(a, b) == ~IsNaN(a) /\ ~IsNaN(b) /\ (a = b \/ FGt(a, b))

Zero == Fin(0, 1)
Hundred == Fin(100, 1)

(***************************************************************************)
(* pandas helpers.                                                         *)
(***************************************************************************)
\* the date texts pandas can parse, with the day each denotes
DateStrings == ("2024-01-01" :> 1) @@ ("2024-01-02" :> 2) @@ ("2024-01-03" :> 3)

\* the numerals pd.to_numeric can parse, with their values
Numerals ==
    ("0" :> <<0, 1>>) @@ ("100" :> <<100, 1>>) @@ ("105" :> <<105, 1>>)
        @@ ("99.99" :> <<9999, 100>>) @@ ("100.0" :> <<100, 1>>)

\* pd.to_datetime(col) without errors=: a text that is no date raises
DateParses(c) == c.t = "str" => c.s \in DOMAIN DateStrings

to_datetime(c) ==
    IF c.t = "ts" THEN c
    ELSE IF c.t = "str" /\ c.s \in DOMAIN DateStrings THEN TsCell(DateStrings[c.s])
    ELSE NoneCell

\* pd.to_numeric(col, errors='coerce'): what does not parse becomes NaN
to_numeric(c) ==
    IF c.t = "num" THEN Fin(c.n, 1)
    ELSE IF c.t = "str" /\ c.s \in DOMAIN Numerals THEN Fin(Numerals[c.s][1], Numerals[c.s][2])
    ELSE NaN

\* Series.fillna(v)
fillna(a, v) == IF IsNaN(a) THEN v ELSE a

\* the positions of f, in row order, of the rows in the group (symbol) of row i
\* that are at or before row i
RECURSIVE GroupUpTo(_, _, _)
GroupUpTo(f, sym, i) ==
    IF i = 0 THEN <<>>
    ELSE IF f[i].symbol = sym THEN Append(GroupUpTo(f, sym, i - 1), i)
    ELSE GroupUpTo(f, sym, i - 1)

\* the last w entries of a sequence (all of it when shorter): a trailing window
\* with min_periods = 1
Trailing(s, w) == IF Len(s) <= w THEN s ELSE SubSeq(s, Len(s) - w + 1, Len(s))

RECURSIVE FSum(_)
FSum(s) == IF s = <<>> THEN Zero ELSE FAdd(s[1], FSum(Tail(s)))

Mean(s) == FDiv(FSum(s), Fin(Len(s), 1))

\* groupby('symbol')['close'].pct_change(): close / previous close of the group - 1,
\* the previous row being the one before it in row order
pct_change(f, i) ==
    LET g == GroupUpTo(f, f[i].symbol, i)
    IN  IF Len(g) < 2 THEN NaN
        ELSE FSub(FDiv(f[i].close, f[g[Len(g) - 1]].close), Fin(1, 1))

\* mutant of rolling_mean: rolling(window) without min_periods=1, missing until the
\* window is full
rolling_mean_full_window(f, i, window) ==
    LET g == GroupUpTo(f, f[i].symbol, i)
    IN  IF Len(g) < window THEN NaN
        ELSE Mean([j \in 1..window |-> f[Trailing(g, window)[j]].close])

\* groupby('symbol')[col].transform(rolling(window, min_periods=1).mean())
rolling_mean(f, i, window) ==
    LET g == Trailing(GroupUpTo(f, f[i].symbol, i), window)
    IN  Mean([j \in 1..Len(g) |-> f[g[j]].close])

RECURSIVE LCMDen(_)
LCMDen(s) ==
    IF s = <<>> THEN 1
    ELSE LET l == LCMDen(Tail(s)) IN (s[1].d * l) \div GCD(s[1].d, l)

RECURSIVE ISum(_)
ISum(s) == IF s = <<>> THEN 0 ELSE s[1] + ISum(Tail(s))

\* the square root, kept symbolic: [k |-> "sqrt"] of the rational n/d
FSqrt(a) == IF IsFin(a) /\ a.n > 0 THEN [k |-> "sqrt", n |-> a.n, d |-> a.d] ELSE a

\* sample standard deviation (ddof = 1) of the non-missing values of s
Std(s) ==
    LET xs == SelectSeq(s, LAMBDA a : ~IsNaN(a))
        n  == Len(xs)
    IN  IF n < 2 THEN NaN
        ELSE IF \E j \in 1..n : IsInf(xs[j]) THEN NaN
        ELSE LET D  == LCMDen(xs)
                 X  == [j \in 1..n |-> xs[j].n * (D \div xs[j].d)]
                 S1 == ISum(X)
                 S2 == ISum([j \in 1..n |-> X[j] * X[j]])
             IN  FSqrt(Fin(n * S2 - S1 * S1, n * (n - 1) * D * D))

\* mutant of rolling_std: the missing deviations filled with zero
rolling_std_zero_filled(f, i, window) ==
    LET g == Trailing(GroupUpTo(f, f[i].symbol, i), window)
    IN  fillna(Std([j \in 1..Len(g) |-> f[g[j]].daily_return]), Zero)

\* groupby('symbol')['daily_return'].transform(rolling(30, min_periods=1).std())
rolling_std(f, i, window) ==
    LET g == Trailing(GroupUpTo(f, f[i].symbol, i), window)
    IN  Std([j \in 1..Len(g) |-> f[g[j]].daily_return])

\* DataFrame.drop_duplicates(subset=...): keep = 'first' is the default, so a row
\* is dropped when an earlier row has equal values in the subset columns
Key(r, subset) == [c \in subset |-> r[c]]

drop_duplicates(f, subset) ==
    LET keep(i) == \A j \in 1..(i - 1) : Key(f[j], subset) # Key(f[i], subset)
        RECURSIVE Build(_)
        Build(i) == IF i = 0 THEN <<>>
                    ELSE IF keep(i) THEN Append(Build(i - 1), f[i])
                    ELSE Build(i - 1)
    IN  Build(Len(f))

\* f with column col set to the values vals, row by row: df[col] = vals
WithColumn(f, col, vals) == [i \in 1..Len(f) |-> (col :> vals[i]) @@ f[i]]

\* df.columns of a dataset that has rows
Columns(f) == DOMAIN f[1]

\* df[col] raises KeyError for a column the dataset lacks; order lists the columns
\* a transform reads, in the order it first reads them
Lacks(f, order) == \E j \in 1..Len(order) : order[j] \notin Columns(f)

\* the columns a transform has read, and assigned back, when it meets the first
\* column that the dataset lacks
ReadBeforeKeyError(f, order) ==
    {order[j] : j \in {m \in 1..Len(order) : \A q \in 1..m : order[q] \in Columns(f)}}

(***************************************************************************)
(* DataTransformer.transform_stock_data                                    *)
(***************************************************************************)
NumericCols == {"open", "high", "low", "close", "volume"}

\* step 1, data type conversions: assigned into the caller's dataset
ConvertStock(f) ==
    [i \in 1..Len(f) |->
        [c \in DOMAIN f[i] |->
            IF c = "date" THEN to_datetime(f[i][c])
            ELSE IF c \in NumericCols THEN to_numeric(f[i][c])
            ELSE f[i][c]]]

\* mutant of HandleMissingStock: the missing volumes not filled
HandleMissingStockNoFill(f) == SelectSeq(f, LAMBDA r : ~IsNaN(r.close))

\* step 2, missing values: df.dropna(subset=['close']); volume.fillna(0)
HandleMissingStock(f) ==
    LET kept == SelectSeq(f, LAMBDA r : ~IsNaN(r.close))
    IN  [i \in 1..Len(kept) |-> [kept[i] EXCEPT !.volume = fillna(@, Zero)]]

price_range(f, i) == FSub(f[i].high, f[i].low)
price_change(f, i) == FSub(f[i].close, f[i].open)
price_change_pct(f, i) == FMul(FDiv(f[i].price_change, f[i].open), Hundred)

\* step 3, feature engineering, in the row order of the dataset
FeatureEngineering(f) ==
    LET f1 == WithColumn(f, "daily_return", [i \in 1..Len(f) |-> pct_change(f, i)])
        f2 == WithColumn(f1, "price_range", [i \in 1..Len(f) |-> price_range(f1, i)])
        f3 == WithColumn(f2, "price_change", [i \in 1..Len(f) |-> price_change(f2, i)])
    IN  WithColumn(f3, "price_change_pct",
                   [i \in 1..Len(f) |-> price_change_pct(f3, i)])

ma_7(f, i) == rolling_mean(f, i, 7)
ma_30(f, i) == rolling_mean(f, i, 30)
volatility_30d(f, i) == rolling_std(f, i, 30)

_add_moving_averages(f) ==
    LET f1 == WithColumn(f, "ma_7", [i \in 1..Len(f) |-> ma_7(f, i)])
    IN  WithColumn(f1, "ma_30", [i \in 1..Len(f) |-> ma_30(f1, i)])

_add_volatility(f) ==
    WithColumn(f, "volatility_30d", [i \in 1..Len(f) |-> volatility_30d(f, i)])

\* mutant of ValidateStock: the volume filter left out
ValidateStockCloseOnly(f) == SelectSeq(f, LAMBDA r : FGt(r.close, Zero))

\* step 5, data validation: df[df['close'] > 0], then df[df['volume'] >= 0]
ValidateStock(f) ==
    SelectSeq(SelectSeq(f, LAMBDA r : FGt(r.close, Zero)),
              LAMBDA r : FGe(r.volume, Zero))

\* mutant of DedupStock: df.drop_duplicates(...) with its result not assigned
DedupStockDiscarded(f) == f

\* step 6
DedupStock(f) == drop_duplicates(f, {"symbol", "date"})

\* step 7: df['transformed_at'] = datetime.now()
AddMetadata(f, t) == [i \in 1..Len(f) |-> ("transformed_at" :> t) @@ f[i]]

\* the dataset transform_stock_data returns for a non-empty dataset whose dates parse
transform_stock_data(f, t) ==
    AddMetadata(
        DedupStock(
            ValidateStock(
                _add_volatility(
                    _add_moving_averages(
                        FeatureEngineering(
                            HandleMissingStock(ConvertStock(f))))))), t)

StockRaises(f) == \E i \in 1..Len(f) : ~DateParses(f[i].date)

\* the columns transform_stock_data reads, in the order of their first df[col]
StockColumns == <<"date", "open", "high", "low", "close", "volume", "symbol">>

\* the conversions of step 1 that were assigned before a KeyError
ConvertStockColumns(f, cols) ==
    [i \in 1..Len(f) |->
        [c \in DOMAIN f[i] |->
            IF c \notin cols THEN f[i][c]
            ELSE IF c = "date" THEN to_datetime(f[i][c])
            ELSE IF c \in NumericCols THEN to_numeric(f[i][c])
            ELSE f[i][c]]]

\* a call transform_stock_data(f) at time t: how it ends (pc), the caller's dataset
\* after it (df) and the dataset it returns (out)
CallStock(f, t) ==
    IF f = <<>> THEN [pc |-> "returned", df |-> f, out |-> f]
    ELSE IF "date" \in Columns(f) /\ StockRaises(f)
    THEN [pc |-> "raised", df |-> f, out |-> <<>>]
    ELSE IF Lacks(f, StockColumns)
    THEN [pc |-> "raised",
          df |-> ConvertStockColumns(f, ReadBeforeKeyError(f, StockColumns)),
          out |-> <<>>]
    ELSE [pc |-> "returned", df |-> ConvertStock(f), out |-> transform_stock_data(f, t)]

TransformStock ==
    /\ pc = "ready"
    /\ domain = "stock"
    /\ pc' = CallStock(df, now).pc
    /\ df' = CallStock(df, now).df
    /\ out' = CallStock(df, now).out
    /\ UNCHANGED <<domain, raw, title_dtype, now, tables, call, session, dag>>

(***************************************************************************)
(* Stock inputs.                                                           *)
(***************************************************************************)
\* the index pandas gives the rows of a new dataset: their positions
WithIndex(rows) == [i \in 1..Len(rows) |-> ("idx" :> i) @@ rows[i]]

SeqsUpTo(S, n) == UNION {[1..m -> S] : m \in 0..n}

Symbols == {"AAPL", "MSFT"}

StockRow(sym, date, o, h, l, c, v) ==
    [symbol |-> sym, date |-> date, open |-> o, high |-> h, low |-> l,
     close |-> c, volume |-> v]

\* (open, close, volume) of a bar: a regular bar, the same with a later close, and
\* bars with one irregular field each
Quotes ==
    { <<NumCell(100), NumCell(100), NumCell(7)>>,
      <<NumCell(100), StrCell("105"), NumCell(7)>>,
      <<NumCell(0), NumCell(100), NumCell(7)>>,
      <<NumCell(100), NumCell(-5), NumCell(7)>>,
      <<NumCell(100), NumCell(0), NumCell(7)>>,
      <<NumCell(100), NoneCell, NumCell(7)>>,
      <<NumCell(100), NumCell(100), NoneCell>>,
      <<NumCell(100), NumCell(100), NumCell(-1)>> }

BatchDates == {TsCell(1), StrCell("2024-01-01"), TsCell(2)}

\* (symbol, date) of the bars of a batch: one symbol on two days, the first day in
\* two spellings, and a second symbol
BatchKeys == {<<"AAPL", d>> : d \in BatchDates} \cup {<<"MSFT", TsCell(1)>>}

\* rows of a batch of several bars
BatchRows ==
    { StockRow(key[1], key[2], q[1], NumCell(110), NumCell(90), q[2], q[3]) :
        key \in BatchKeys, q \in Quotes }

\* a single bar, every field drawn independently
SingleDates == BatchDates \cup {NoneCell, StrCell("n/a")}
SingleOpens == {NoneCell, NumCell(0), NumCell(100)}
SingleHighLows == {<<NumCell(110), NumCell(90)>>, <<StrCell("abc"), NumCell(90)>>}
SingleCloses == {NoneCell, StrCell("abc"), NumCell(-5), NumCell(0), NumCell(100), StrCell("105")}
SingleVolumes == {NoneCell, StrCell("abc"), NumCell(-1), NumCell(0), NumCell(7)}

SingleRows ==
    { StockRow("AAPL", date, o, hl[1], hl[2], c, v) :
        date \in SingleDates, o \in SingleOpens, hl \in SingleHighLows,
        c \in SingleCloses, v \in SingleVolumes }

StockInputs ==
    {WithIndex(rows) : rows \in SeqsUpTo(BatchRows, MaxStockRows)}
        \cup {WithIndex(<<r>>) : r \in SingleRows}

Today == 10

InitStock ==
    /\ domain = "stock"
    /\ raw \in StockInputs
    /\ df = raw
    /\ title_dtype = "object"
    /\ out = <<>>
    /\ now = Today
    /\ pc = "ready"
    /\ tables = NoTables /\ call = NoCall /\ session = NoSession /\ dag = NoDag

NextStock == TransformStock

SpecStock == InitStock /\ [][NextStock]_vars

(***************************************************************************)
(* Long series of one symbol: day i has close SeriesClose(i, step); one    *)
(* row of the series may be irregular (defect), at position at.            *)
(***************************************************************************)
SeriesClose(i, step) == 1 + ((i * step) % 4)

Defects ==
    {"none", "negative_close", "missing_close", "negative_volume", "same_date",
     "other_symbol"}

SeriesRow(i, step, defect) ==
    StockRow(IF defect = "other_symbol" THEN "MSFT" ELSE "AAPL",
             TsCell(IF defect = "same_date" THEN i - 1 ELSE i),
             NumCell(2), NumCell(5), NumCell(1),
             IF defect = "missing_close" THEN NoneCell
             ELSE NumCell(IF defect = "negative_close" THEN -1 ELSE SeriesClose(i, step)),
             NumCell(IF defect = "negative_volume" THEN -1 ELSE 7))

Series(len, step, defect, at) ==
    WithIndex([i \in 1..len |-> SeriesRow(i, step, IF i = at THEN defect ELSE "none")])

SeriesInputs ==
    { Series(len, step, defect, at) :
        len \in (MaxSeriesLen - 1)..MaxSeriesLen, step \in 1..3,
        defect \in Defects, at \in 1..MaxSeriesLen }

InitSeries ==
    /\ domain = "stock"
    /\ raw \in SeriesInputs
    /\ df = raw
    /\ title_dtype = "object"
    /\ out = <<>>
    /\ now = Today
    /\ pc = "ready"
    /\ tables = NoTables /\ call = NoCall /\ session = NoSession /\ dag = NoDag

SpecSeries == InitSeries /\ [][NextStock]_vars

(***************************************************************************)
(* Claims about transform_stock_data.                                      *)
(***************************************************************************)
StockReturned == pc = "returned" /\ domain = "stock"

\* what the transform makes of a raw row's key and required values
RawKey(r) == <<r.symbol, to_datetime(r.date)>>
OutKey(o) == <<o.symbol, o.date>>
RawClose(r) == to_numeric(r.close)
RawVolume(r) == to_numeric(r.volume)
RawValid(r) ==
    /\ FGt(RawClose(r), Zero)
    /\ IsNaN(RawVolume(r)) \/ FGe(RawVolume(r), Zero)

\* the elements of a finite set of integers in ascending order
RECURSIVE Ascending(_)
Ascending(S) ==
    IF S = {} THEN <<>>
    ELSE LET m == CHOOSE x \in S : \A y \in S : x <= y
         IN  <<m>> \o Ascending(S \ {m})

\* the last input row, in input order, with the key of output row i that passes
\* validation
LastValidWithKey(i) ==
    CHOOSE j \in 1..Len(raw) :
        /\ RawKey(raw[j]) = OutKey(out[i]) /\ RawValid(raw[j])
        /\ \A k \in 1..Len(raw) :
              (RawKey(raw[k]) = OutKey(out[i]) /\ RawValid(raw[k])) => k <= j

\* C1: when several input rows share (symbol, date), the row kept in the output is
\* the one that appears last in input order: the output row has that row's close.
C1_LastDuplicateWins ==
    StockReturned =>
        \A i \in 1..Len(out) : out[i].close = RawClose(raw[LastValidWithKey(i)])

\* C2: the output never contains two rows with the same (symbol, date).
C2_UniqueSymbolDate ==
    StockReturned =>
        \A i, j \in 1..Len(out) : i # j => OutKey(out[i]) # OutKey(out[j])

\* C2 witness: two valid input rows with the same symbol and the same day, the day
\* spelled differently, of which one row is output.
C2_Witness ==
    /\ StockReturned
    /\ Len(out) = 1
    /\ \E i, j \in 1..Len(raw) :
        /\ i < j
        /\ RawKey(raw[i]) = RawKey(raw[j])
        /\ raw[i].date # raw[j].date
        /\ RawValid(raw[i]) /\ RawValid(raw[j])

\* an input of valid rows with parsable dates and no duplicate (symbol, date)
CleanStock(f) ==
    /\ \A j \in 1..Len(f) : RawValid(f[j]) /\ to_datetime(f[j].date).t = "ts"
    /\ \A i, j \in 1..Len(f) : i # j => RawKey(f[i]) # RawKey(f[j])

\* the output rows of the symbol of row i that are dated before row i
EarlierByDate(i) ==
    {p \in 1..Len(out) : out[p].symbol = out[i].symbol /\ out[p].date.n < out[i].date.n}

PrecedingDay(i) ==
    CHOOSE p \in EarlierByDate(i) : \A q \in EarlierByDate(i) : out[q].date.n <= out[p].date.n

\* C3: daily_return is missing for a symbol's chronologically first row and is
\* (close_t - close_{t-1}) / close_{t-1} otherwise, t-1 being the symbol's preceding
\* day by date, whatever the row order of the input.
C3_DailyReturnByDate ==
    (StockReturned /\ CleanStock(raw)) =>
        \A i \in 1..Len(out) :
            IF EarlierByDate(i) = {} THEN IsNaN(out[i].daily_return)
            ELSE out[i].daily_return =
                    FDiv(FSub(out[i].close, out[PrecedingDay(i)].close),
                         out[PrecedingDay(i)].close)

\* the output positions of the symbol of output row i, up to row i, in row order
OutGroup(i) == Ascending({p \in 1..i : out[p].symbol = out[i].symbol})

\* the input positions of the symbol of output row i with a close that is not
\* missing, up to that row's own input position, in row order
RawGroup(i) ==
    Ascending({j \in 1..out[i].idx :
                  raw[j].symbol = out[i].symbol /\ ~IsNaN(RawClose(raw[j]))})

\* C4 as claimed: a symbol's first output row has ma_7 = close, and an output row with
\* at least 29 earlier output rows of its symbol has ma_30 = the mean of the closes of
\* the row and those 29 preceding output rows.
C4_MovingAverageOverOutputRows ==
    StockReturned =>
        \A i \in 1..Len(out) :
            LET g == OutGroup(i)
                w == Trailing(g, 30)
            IN  /\ Len(g) = 1 => out[i].ma_7 = out[i].close
                /\ Len(g) >= 30 =>
                      out[i].ma_30 = Mean([j \in 1..30 |-> out[w[j]].close])

\* C4 as amended: the windows run over the input rows of the symbol that have a close
\* (rows that validation or deduplication drop afterwards included): the symbol's
\* first such row has ma_7 = close, and a row with at least 29 such rows before it has
\* ma_30 = the mean of the closes of the row and the 29 such rows before it.
C4_MovingAverageOverInputRows ==
    StockReturned =>
        \A i \in 1..Len(out) :
            LET g == RawGroup(i)
                w == Trailing(g, 30)
            IN  /\ Len(g) = 1 => out[i].ma_7 = out[i].close
                /\ Len(g) >= 30 =>
                      out[i].ma_30 = Mean([j \in 1..30 |-> RawClose(raw[w[j]])])

\* C4 witness: an output row whose trailing 30 input rows hold a row that is not
\* output, and the first input row of the symbol is output.
C4_Witness ==
    /\ StockReturned
    /\ \E i \in 1..Len(out) :
        /\ Len(RawGroup(i)) >= 30
        /\ \E j \in 1..30 :
              \A p \in 1..Len(out) : out[p].idx # Trailing(RawGroup(i), 30)[j]
    /\ \E i \in 1..Len(out) : Len(RawGroup(i)) = 1

\* C5: a row with open = 0 that reaches the output has a missing price_change_pct
\* (not an infinity).
C5_ZeroOpenGivesMissing ==
    StockReturned =>
        \A i \in 1..Len(out) : out[i].open = Zero => IsNaN(out[i].price_change_pct)

\* C10: every output row has close > 0 and volume >= 0; rows with close <= 0 or
\* volume < 0 are excluded without raising (a call raises only for a date that does
\* not parse), and every valid input row is still represented in the output.
C10_ValidationGate ==
    /\ StockReturned =>
        /\ \A i \in 1..Len(out) : FGt(out[i].close, Zero) /\ FGe(out[i].volume, Zero)
        /\ \A i \in 1..Len(out) :
              /\ RawValid(raw[out[i].idx])
              /\ out[i].close = RawClose(raw[out[i].idx])
        /\ \A j \in 1..Len(raw) :
              RawValid(raw[j]) => \E i \in 1..Len(out) : OutKey(out[i]) = RawKey(raw[j])
    /\ (pc = "raised" /\ domain = "stock") => \E j \in 1..Len(raw) : ~DateParses(raw[j].date)

\* C10 witness: a batch of a row with close <= 0 or volume < 0 and a valid row, of
\* which the valid row alone is output.
C10_Witness ==
    /\ StockReturned
    /\ Len(raw) = 2 /\ Len(out) = 1
    /\ \E j \in 1..2 :
          \/ FGe(Zero, RawClose(raw[j]))
          \/ FGt(Zero, RawVolume(raw[j]))
    /\ \E j \in 1..2 : FGt(Zero, RawVolume(raw[j]))

(***************************************************************************)
(* DataTransformer.transform_crypto_data                                   *)
(***************************************************************************)
\* bins=[0, 100, 1000, 10000, float('inf')] and their labels
Bins == <<Zero, Fin(100, 1), Fin(1000, 1), Fin(10000, 1), Inf(1)>>
Labels == <<"low", "medium", "high", "very_high">>

\* pd.cut(x, bins, labels=labels): right = True and include_lowest = False are the
\* defaults, so bin b is (Bins[b], Bins[b+1]]; a value in no bin is missing
cut(x) ==
    LET hits == {b \in 1..Len(Labels) : FGt(x, Bins[b]) /\ FGe(Bins[b + 1], x)}
    IN  IF hits = {} THEN NoneCell ELSE StrCell(Labels[CHOOSE b \in hits : TRUE])

ConvertCrypto(f) ==
    [i \in 1..Len(f) |->
        [f[i] EXCEPT !.timestamp = to_datetime(@),
                     !.price_usd = to_numeric(@),
                     !.market_cap = to_numeric(@)]]

price_category(f, i) == cut(f[i].price_usd)

\* mutant of HandleMissingCrypto: df.dropna(...) with its result not assigned
HandleMissingCryptoDiscarded(f) == f

\* step 2, missing values: df.dropna(subset=['price_usd'])
HandleMissingCrypto(f) == SelectSeq(f, LAMBDA r : ~IsNaN(r.price_usd))

transform_crypto_data(f, t) ==
    LET f1 == HandleMissingCrypto(ConvertCrypto(f))
    IN  AddMetadata(
            WithColumn(f1, "price_category", [i \in 1..Len(f1) |-> price_category(f1, i)]),
            t)

CryptoRaises(f) == \E i \in 1..Len(f) : ~DateParses(f[i].timestamp)

\* the columns transform_crypto_data reads, in the order of their first df[col]
CryptoColumns == <<"timestamp", "price_usd", "market_cap">>

\* the conversions of step 1 that were assigned before a KeyError
ConvertCryptoColumns(f, cols) ==
    [i \in 1..Len(f) |->
        [c \in DOMAIN f[i] |->
            IF c \notin cols THEN f[i][c]
            ELSE IF c = "timestamp" THEN to_datetime(f[i][c])
            ELSE to_numeric(f[i][c])]]

\* a call transform_crypto_data(f) at time t
CallCrypto(f, t) ==
    IF f = <<>> THEN [pc |-> "returned", df |-> f, out |-> f]
    ELSE IF "timestamp" \in Columns(f) /\ CryptoRaises(f)
    THEN [pc |-> "raised", df |-> f, out |-> <<>>]
    ELSE IF Lacks(f, CryptoColumns)
    THEN [pc |-> "raised",
          df |-> ConvertCryptoColumns(f, ReadBeforeKeyError(f, CryptoColumns)),
          out |-> <<>>]
    ELSE [pc |-> "returned", df |-> ConvertCrypto(f), out |-> transform_crypto_data(f, t)]

TransformCrypto ==
    /\ pc = "ready"
    /\ domain = "crypto"
    /\ pc' = CallCrypto(df, now).pc
    /\ df' = CallCrypto(df, now).df
    /\ out' = CallCrypto(df, now).out
    /\ UNCHANGED <<domain, raw, title_dtype, now, tables, call, session, dag>>

CryptoRow(ts, id, price, cap) ==
    [timestamp |-> ts, crypto_id |-> id, price_usd |-> price, market_cap |-> cap,
     volume_24h |-> NumCell(0), change_24h |-> NumCell(0)]

CryptoIds == {"bitcoin", "ethereum"}

Prices ==
    { NoneCell, StrCell("abc"), NumCell(-1), NumCell(0), NumCell(1), StrCell("99.99"),
      NumCell(100), StrCell("100.0"), NumCell(101), NumCell(999), NumCell(1000),
      NumCell(1001), NumCell(9999), NumCell(10000), NumCell(10001) }

\* the ticks of one extraction: one timestamp, the market cap present
BatchTicks == {CryptoRow(TsCell(1), id, p, NumCell(5)) : id \in CryptoIds, p \in Prices}

SingleTicks ==
    { CryptoRow(ts, "bitcoin", p, cap) :
        ts \in {TsCell(1), StrCell("2024-01-02"), NoneCell, StrCell("n/a")},
        p \in Prices, cap \in {NumCell(0), NumCell(5), StrCell("abc"), NoneCell} }

CryptoInputs ==
    {WithIndex(rows) : rows \in SeqsUpTo(BatchTicks, MaxCryptoRows)}
        \cup {WithIndex(<<r>>) : r \in SingleTicks}

InitCrypto ==
    /\ domain = "crypto"
    /\ raw \in CryptoInputs
    /\ df = raw
    /\ title_dtype = "object"
    /\ out = <<>>
    /\ now = Today
    /\ pc = "ready"
    /\ tables = NoTables /\ call = NoCall /\ session = NoSession /\ dag = NoDag

NextCrypto == TransformCrypto

SpecCrypto == InitCrypto /\ [][NextCrypto]_vars

(***************************************************************************)
(* Claims about transform_crypto_data.                                     *)
(***************************************************************************)
CryptoReturned == pc = "returned" /\ domain = "crypto"

\* the bucket the claim gives a price: [0,100) low, [100,1000) medium,
\* [1000,10000) high, [10000, inf) very_high
LeftInclusiveBucket(x) ==
    IF FGt(Fin(100, 1), x) THEN "low"
    ELSE IF FGt(Fin(1000, 1), x) THEN "medium"
    ELSE IF FGt(Fin(10000, 1), x) THEN "high"
    ELSE "very_high"

\* C6: price_category has left-inclusive, right-exclusive buckets: 99.99 is low,
\* 100.0 is medium, 1000.0 is high, 10000.0 is very_high.
C6_LeftInclusiveBuckets ==
    CryptoReturned =>
        \A i \in 1..Len(out) :
            FGe(out[i].price_usd, Zero) =>
                out[i].price_category = StrCell(LeftInclusiveBucket(out[i].price_usd))

(***************************************************************************)
(* DataTransformer.transform_news_data                                     *)
(*                                                                         *)
(* A title cell is [t, c]: t = "str" the text of characters c, t = "none"  *)
(* a missing title, t = "num" a value that is not text.                    *)
(***************************************************************************)
NoTitle == [t |-> "none", c |-> <<>>]
NumTitle == [t |-> "num", c |-> <<>>]
Title(chars) == [t |-> "str", c |-> chars]

LowerLetters ==
    <<"a", "b", "c", "d", "e", "f", "g", "h", "i", "j", "k", "l", "m", "n", "o", "p", "q", "r", "s", "t", "u", "v", "w", "x", "y", "z">>
UpperLetters ==
    <<"A", "B", "C", "D", "E", "F", "G", "H", "I", "J", "K", "L", "M", "N", "O", "P", "Q", "R", "S", "T", "U", "V", "W", "X", "Y", "Z">>

\* str.lower() and str.upper() of one character
LowerChar(ch) ==
    IF \E i \in 1..26 : UpperLetters[i] = ch
    THEN LowerLetters[CHOOSE i \in 1..26 : UpperLetters[i] = ch] ELSE ch
UpperChar(ch) ==
    IF \E i \in 1..26 : LowerLetters[i] = ch
    THEN UpperLetters[CHOOSE i \in 1..26 : LowerLetters[i] = ch] ELSE ch

Lower(chars) == [i \in 1..Len(chars) |-> LowerChar(chars[i])]

RECURSIVE LStrip(_)
LStrip(chars) ==
    IF chars # <<>> /\ chars[1] = " " THEN LStrip(Tail(chars)) ELSE chars

RECURSIVE RStrip(_)
RStrip(chars) ==
    IF chars # <<>> /\ chars[Len(chars)] = " "
    THEN RStrip(SubSeq(chars, 1, Len(chars) - 1)) ELSE chars

Strip(chars) == RStrip(LStrip(chars))

\* re.search of a pattern of plain letters: the pattern at the head, or in the rest
RECURSIVE Search(_, _)
Search(chars, pat) ==
    IF Len(chars) < Len(pat) THEN FALSE
    ELSE IF SubSeq(chars, 1, Len(pat)) = pat THEN TRUE
    ELSE Search(Tail(chars), pat)

\* the .str methods give a missing value for an element that is not text
str_strip(c) == IF c.t = "str" THEN Title(Strip(c.c)) ELSE NoTitle
str_len(c) == IF c.t = "str" THEN Fin(Len(c.c), 1) ELSE NaN
str_lower(c) == IF c.t = "str" THEN Title(Lower(c.c)) ELSE NoTitle
str_contains(c, pat, na) == IF c.t = "str" THEN Search(c.c, pat) ELSE na

\* the fixed vocabulary
keywords ==
    ("earnings" :> <<"e", "a", "r", "n", "i", "n", "g", "s">>)
        @@ ("merger" :> <<"m", "e", "r", "g", "e", "r">>)
        @@ ("acquisition" :> <<"a", "c", "q", "u", "i", "s", "i", "t", "i", "o", "n">>)
        @@ ("revenue" :> <<"r", "e", "v", "e", "n", "u", "e">>)
        @@ ("profit" :> <<"p", "r", "o", "f", "i", "t">>)
        @@ ("loss" :> <<"l", "o", "s", "s">>)
        @@ ("growth" :> <<"g", "r", "o", "w", "t", "h">>)
        @@ ("decline" :> <<"d", "e", "c", "l", "i", "n", "e">>)
        @@ ("bullish" :> <<"b", "u", "l", "l", "i", "s", "h">>)
        @@ ("bearish" :> <<"b", "e", "a", "r", "i", "s", "h">>)

\* mutant of has_keyword: the title not lower-cased before the search
has_keyword_case_sensitive(c, keyword) == str_contains(c, keywords[keyword], FALSE)

\* df['title'].str.lower().str.contains(keyword, na=False)
has_keyword(c, keyword) == str_contains(str_lower(c), keywords[keyword], FALSE)

\* mutant of CleanText: the stripped title not assigned back
CleanTextUnassigned(f) == f

\* step 1, clean text: the stripped title is assigned into the caller's dataset,
\* and so are title_length and the has_<keyword> columns (row field has[keyword])
CleanText(f) == [i \in 1..Len(f) |-> [f[i] EXCEPT !.title = str_strip(@)]]

title_length(f, i) == str_len(f[i].title)
has(f, i) == [k \in DOMAIN keywords |-> has_keyword(f[i].title, k)]

ExtractKeywords(f) ==
    LET f1 == WithColumn(f, "title_length", [i \in 1..Len(f) |-> title_length(f, i)])
    IN  WithColumn(f1, "has", [i \in 1..Len(f) |-> has(f1, i)])

\* step 3
DedupNews(f) == drop_duplicates(f, {"title", "symbol"})

transform_news_data(f, t) == AddMetadata(DedupNews(ExtractKeywords(CleanText(f))), t)

\* the .str accessor raises AttributeError unless the column can hold text: a
\* float64 column (every title missing, as read from a file) and an object column
\* of numbers only are refused; an object column of missing values only is not
NewsRaises(f, dtype) ==
    \/ dtype = "float64"
    \/ /\ \A i \in 1..Len(f) : f[i].title.t # "str"
       /\ \E i \in 1..Len(f) : f[i].title.t = "num"

\* a call transform_news_data(f) at time t, the title column of f having dtype
\* dtype: df['title'] is read first (line 92), df['symbol'] by drop_duplicates
\* (line 103), after the title columns were assigned
CallNews(f, dtype, t) ==
    IF f = <<>> THEN [pc |-> "returned", df |-> f, out |-> f]
    ELSE IF "title" \notin Columns(f) THEN [pc |-> "raised", df |-> f, out |-> <<>>]
    ELSE IF NewsRaises(f, dtype) THEN [pc |-> "raised", df |-> f, out |-> <<>>]
    ELSE IF "symbol" \notin Columns(f)
    THEN [pc |-> "raised", df |-> ExtractKeywords(CleanText(f)), out |-> <<>>]
    ELSE [pc |-> "returned", df |-> ExtractKeywords(CleanText(f)),
          out |-> transform_news_data(f, t)]

TransformNews ==
    /\ pc = "ready"
    /\ domain = "news"
    /\ pc' = CallNews(df, title_dtype, now).pc
    /\ df' = CallNews(df, title_dtype, now).df
    /\ out' = CallNews(df, title_dtype, now).out
    /\ UNCHANGED <<domain, raw, title_dtype, now, tables, call, session, dag>>

(***************************************************************************)
(* News inputs.                                                            *)
(***************************************************************************)
NewsRow(sym, title, url, source, at) ==
    [symbol |-> sym, title |-> title, url |-> url, source |-> source, scraped_at |-> at]

\* url, source and scraped_at of an article, as the scrapers set them: the
\* alternative source is scraped after the first
Links ==
    { <<"https://finance.yahoo.com/a", "Yahoo Finance", 1>>,
      <<"https://www.marketwatch.com/b", "MarketWatch", 2>> }

BatchTitles ==
    { Title(<<"l", "o", "s", "s">>), Title(<<" ", "l", "o", "s", "s">>),
      Title(<<"L", "o", "s", "s">>), NoTitle, NumTitle }

BatchArticles ==
    { NewsRow(sym, title, link[1], link[2], TsCell(link[3])) :
        sym \in Symbols, title \in BatchTitles, link \in Links }

\* every text of up to MaxTitleLen characters over a small alphabet
Alphabet == {"l", "o", "s", " "}
ShortTitles == {Title(chars) : chars \in SeqsUpTo(Alphabet, MaxTitleLen)}

\* a keyword, whole or cut short, in lower case, capitalised or in upper case,
\* inside a longer text
Cased(chars, style) ==
    [i \in 1..Len(chars) |->
        IF style = "upper" \/ (style = "capital" /\ i = 1)
        THEN UpperChar(chars[i]) ELSE chars[i]]

KeywordTitles ==
    { Title(pre \o Cased(SubSeq(keywords[k], 1, Len(keywords[k]) - cut_short), style)
                \o post) :
        k \in DOMAIN keywords, cut_short \in 0..1,
        style \in {"lower", "capital", "upper"},
        pre \in {<<>>, <<" ">>, <<"n", "o", " ">>},
        post \in {<<>>, <<" ">>, <<"a", "b", "i", "l", "i", "t", "y">>} }

SingleArticles ==
    { NewsRow("AAPL", title, "https://finance.yahoo.com/a", "Yahoo Finance", TsCell(1)) :
        title \in ShortTitles \cup KeywordTitles \cup {NoTitle, NumTitle} }

NewsInputs ==
    {WithIndex(rows) : rows \in SeqsUpTo(BatchArticles, MaxNewsRows)}
        \cup {WithIndex(<<r>>) : r \in SingleArticles}

InitNews ==
    /\ domain = "news"
    /\ raw \in NewsInputs
    /\ df = raw
    /\ title_dtype \in {"object", "float64"}
    /\ title_dtype = "float64" => \A i \in 1..Len(raw) : raw[i].title.t # "str"
    /\ out = <<>>
    /\ now = Today
    /\ pc = "ready"
    /\ tables = NoTables /\ call = NoCall /\ session = NoSession /\ dag = NoDag

NextNews == TransformNews

SpecNews == InitNews /\ [][NextNews]_vars

(***************************************************************************)
(* Claims about transform_news_data.                                       *)
(***************************************************************************)
NewsReturned == pc = "returned" /\ domain = "news"

\* keyword occurs in the lower-cased text as a substring
OccursIn(chars, pat) ==
    \E start \in 1..(Len(chars) - Len(pat) + 1) :
        \A j \in 1..Len(pat) : LowerChar(chars[start + j - 1]) = pat[j]

\* C7: for every keyword k of the vocabulary, has_k is true exactly when the
\* lower-cased title contains k as a substring, and false when the title is missing.
C7_KeywordFlags ==
    NewsReturned =>
        \A i \in 1..Len(out) : \A k \in DOMAIN keywords :
            LET title == raw[out[i].idx].title
            IN  out[i].has[k] = (title.t = "str" /\ OccursIn(title.c, keywords[k]))

\* C7 witness: the title "Profitability" is flagged has_profit, and has_loss is false.
C7_Witness ==
    /\ NewsReturned
    /\ \E i \in 1..Len(out) :
        /\ out[i].title =
              Title(<<"P", "r", "o", "f", "i", "t", "a", "b", "i", "l", "i", "t", "y">>)
        /\ out[i].has["profit"] /\ ~out[i].has["loss"]

\* the key transform_news_data deduplicates on, of an input row
NewsKey(r) == <<str_strip(r.title), r.symbol>>

LastWithNewsKey(i) ==
    CHOOSE j \in 1..Len(raw) :
        /\ NewsKey(raw[j]) = NewsKey(out[i])
        /\ \A k \in 1..Len(raw) : NewsKey(raw[k]) = NewsKey(out[i]) => k <= j

\* C8: when several rows share (trimmed title, symbol), the row kept is the one
\* that appears last in input order: its url, source and scraped_at are output.
C8_LastArticleWins ==
    NewsReturned =>
        \A i \in 1..Len(out) :
            LET last == raw[LastWithNewsKey(i)]
            IN  /\ out[i].url = last.url
                /\ out[i].source = last.source
                /\ out[i].scraped_at = last.scraped_at

\* C9: the output never contains two rows with the same (title, symbol), titles
\* compared after trimming surrounding whitespace.
C9_UniqueTitleSymbol ==
    NewsReturned =>
        \A i, j \in 1..Len(out) : i # j => NewsKey(out[i]) # NewsKey(out[j])

\* C9 witness: two input rows of one symbol whose titles differ only in surrounding
\* whitespace, of which one row is output.
C9_Witness ==
    /\ NewsReturned
    /\ Len(raw) = 2 /\ Len(out) = 1
    /\ raw[1].title.t = "str"
    /\ raw[1].title # raw[2].title
    /\ NewsKey(raw[1]) = NewsKey(raw[2])

(***************************************************************************)
(* DataTransformer.transform_portfolio_data                                *)
(*                                                                         *)
(* Here now is a rational number of days (a float cell), and a purchase    *)
(* date of day n is the instant n days, midnight.                          *)
(***************************************************************************)
\* the columns transform_portfolio_data reads, in the order of their first df[col]
PortfolioColumns == <<"purchase_date", "quantity", "purchase_price">>

\* step 1, data type conversions: assigned into the caller's dataset
ConvertPortfolioColumns(f, cols) ==
    [i \in 1..Len(f) |->
        [c \in DOMAIN f[i] |->
            IF c \notin cols THEN f[i][c]
            ELSE IF c = "purchase_date" THEN to_datetime(f[i][c])
            ELSE to_numeric(f[i][c])]]

ConvertPortfolio(f) ==
    ConvertPortfolioColumns(f, {"purchase_date", "quantity", "purchase_price"})

\* mutant of cost_basis: the sum instead of the product
cost_basis_sum(f, i) == FAdd(f[i].quantity, f[i].purchase_price)

\* df['quantity'] * df['purchase_price']
cost_basis(f, i) == FMul(f[i].quantity, f[i].purchase_price)

\* Timedelta.days: the whole days of the difference t - day, rounded down (a
\* negative difference of half a day is -1 days + 12 hours); NaT gives a missing value
holding_days(f, i, t) ==
    IF f[i].purchase_date.t = "ts"
    THEN Fin((t.n - f[i].purchase_date.n * t.d) \div t.d, 1)
    ELSE NaN

\* step 2, calculate metrics
CalculateMetrics(f, t) ==
    LET f1 == WithColumn(f, "cost_basis", [i \in 1..Len(f) |-> cost_basis(f, i)])
    IN  WithColumn(f1, "holding_days", [i \in 1..Len(f) |-> holding_days(f1, i, t)])

\* the dataset transform_portfolio_data returns: the caller's dataset itself, every
\* column assigned into it
transform_portfolio_data(f, t) == AddMetadata(CalculateMetrics(ConvertPortfolio(f), t), t)

PortfolioRaises(f) == \E i \in 1..Len(f) : ~DateParses(f[i].purchase_date)

\* a call transform_portfolio_data(f) at time t
CallPortfolio(f, t) ==
    IF f = <<>> THEN [pc |-> "returned", df |-> f, out |-> f]
    ELSE IF "purchase_date" \in Columns(f) /\ PortfolioRaises(f)
    THEN [pc |-> "raised", df |-> f, out |-> <<>>]
    ELSE IF Lacks(f, PortfolioColumns)
    THEN [pc |-> "raised",
          df |-> ConvertPortfolioColumns(f, ReadBeforeKeyError(f, PortfolioColumns)),
          out |-> <<>>]
    ELSE [pc |-> "returned", df |-> transform_portfolio_data(f, t),
          out |-> transform_portfolio_data(f, t)]

TransformPortfolio ==
    /\ pc = "ready"
    /\ domain = "portfolio"
    /\ pc' = CallPortfolio(df, now).pc
    /\ df' = CallPortfolio(df, now).df
    /\ out' = CallPortfolio(df, now).out
    /\ UNCHANGED <<domain, raw, title_dtype, now, tables, call, session, dag>>

(***************************************************************************)
(* Portfolio inputs.                                                       *)
(***************************************************************************)
MaxPortfolioRows == 2

\* a holding as PortfolioDatabase.extract_portfolio_data selects it
PortfolioRow(sym, quantity, price, date, type) ==
    [user_id |-> NumCell(1), symbol |-> sym, quantity |-> quantity,
     purchase_price |-> price, purchase_date |-> date, asset_type |-> type,
     created_at |-> TsCell(1), extraction_timestamp |-> TsCell(Today)]

\* purchase dates around the day of the call, long before it, missing and unparsable
PurchaseDates ==
    {TsCell(d) : d \in (Today - 2)..(Today + 2)}
        \cup {StrCell("2024-01-01"), NoneCell, StrCell("n/a")}

Quantities == {NumCell(2), NumCell(0), StrCell("100"), StrCell("abc"), NoneCell}
PurchasePrices == {NumCell(2500), StrCell("99.99"), StrCell("abc"), NoneCell}

SingleHoldings ==
    { PortfolioRow("ethereum", q, p, d, "crypto") :
        q \in Quantities, p \in PurchasePrices, d \in PurchaseDates }

BatchHoldings ==
    { PortfolioRow(sym, q, NumCell(2500), d, "stock") :
        sym \in Symbols, q \in {NumCell(2), NoneCell},
        d \in {TsCell(Today), TsCell(Today - 1)} }

PortfolioInputs ==
    {WithIndex(rows) : rows \in SeqsUpTo(BatchHoldings, MaxPortfolioRows)}
        \cup {WithIndex(<<r>>) : r \in SingleHoldings}

\* the instants of the call: midnight, noon and the evening of the day Today
Instants == {Fin(4 * Today + q, 4) : q \in {0, 2, 3}}

InitPortfolio ==
    /\ domain = "portfolio"
    /\ raw \in PortfolioInputs
    /\ df = raw
    /\ title_dtype = "object"
    /\ out = <<>>
    /\ now \in Instants
    /\ pc = "ready"
    /\ tables = NoTables /\ call = NoCall /\ session = NoSession /\ dag = NoDag

NextPortfolio == TransformPortfolio

SpecPortfolio == InitPortfolio /\ [][NextPortfolio]_vars

(***************************************************************************)
(* The four transforms, each called once on a dataset of its domain: the   *)
(* inputs above, and datasets of one row that lack one of the columns of   *)
(* the domain.                                                             *)
(***************************************************************************)
Domains == {"stock", "crypto", "news", "portfolio"}

\* a row of each domain as the extractors build it
RegularRow(d) ==
    IF d = "stock"
    THEN StockRow("AAPL", StrCell("2024-01-01"), NumCell(100), NumCell(110),
                  NumCell(90), StrCell("105"), NumCell(7))
    ELSE IF d = "crypto"
    THEN CryptoRow(StrCell("2024-01-02"), "bitcoin", StrCell("99.99"), NumCell(5))
    ELSE IF d = "news"
    THEN NewsRow("AAPL", Title(<<" ", "l", "o", "s", "s">>),
                 "https://finance.yahoo.com/a", "Yahoo Finance", TsCell(1))
    ELSE PortfolioRow("ethereum", NumCell(2), NumCell(2500), TsCell(Today), "crypto")

Without(r, col) == [c \in (DOMAIN r) \ {col} |-> r[c]]

LackingInputs(d) ==
    {WithIndex(<<Without(RegularRow(d), col)>>) : col \in DOMAIN RegularRow(d)}

InitLacking ==
    /\ domain \in Domains
    /\ raw \in LackingInputs(domain)
    /\ df = raw
    /\ title_dtype = "object"
    /\ out = <<>>
    /\ now \in (IF domain = "portfolio" THEN Instants ELSE {Today})
    /\ pc = "ready"
    /\ tables = NoTables /\ call = NoCall /\ session = NoSession /\ dag = NoDag

InitTransform == InitStock \/ InitCrypto \/ InitNews \/ InitPortfolio \/ InitLacking

NextTransform == TransformStock \/ TransformCrypto \/ TransformNews \/ TransformPortfolio

SpecTransform == InitTransform /\ [][NextTransform]_vars

\* the dataset has every column its extractor gives it
Complete(f, d) == f # <<>> => DOMAIN RegularRow(d) \subseteq Columns(f)

(***************************************************************************)
(* Claims about the four transforms.                                       *)
(***************************************************************************)
PortfolioReturned == pc = "returned" /\ domain = "portfolio"

\* the output rows that come from input row j
FromRow(j) == {i \in 1..Len(out) : out[i].idx = j}

\* C11: transform_stock_data drops every row whose close is missing or unparsable
\* and transform_crypto_data every row whose price_usd is; no output row of either
\* has a missing value in that field, and every other crypto row is retained.
C11_MissingRequiredDropped ==
    /\ StockReturned =>
        /\ \A i \in 1..Len(out) : ~IsNaN(out[i].close)
        /\ \A j \in 1..Len(raw) : IsNaN(RawClose(raw[j])) => FromRow(j) = {}
    /\ CryptoReturned =>
        /\ \A i \in 1..Len(out) : ~IsNaN(out[i].price_usd)
        /\ \A j \in 1..Len(raw) :
              IF IsNaN(to_numeric(raw[j].price_usd)) THEN FromRow(j) = {}
              ELSE /\ Cardinality(FromRow(j)) = 1
                   /\ \A i \in FromRow(j) :
                         /\ out[i].price_usd = to_numeric(raw[j].price_usd)
                         /\ out[i].timestamp = to_datetime(raw[j].timestamp)

\* C11 witness: a crypto batch of a tick with an unparsable price and a tick with a
\* price, in that order, of which the second alone is output.
C11_Witness ==
    /\ CryptoReturned
    /\ Len(raw) = 2 /\ Len(out) = 1
    /\ raw[1].price_usd = StrCell("abc")
    /\ out[1].idx = 2

\* C12: a stock row whose volume is missing or unparsable, whose close is > 0 and
\* whose (symbol, date) no other input row has, is output with volume = 0.
C12_MissingVolumeIsZero ==
    StockReturned =>
        \A j \in 1..Len(raw) :
            ( /\ IsNaN(RawVolume(raw[j]))
              /\ FGt(RawClose(raw[j]), Zero)
              /\ \A k \in 1..Len(raw) : k # j => RawKey(raw[k]) # RawKey(raw[j]) )
            => /\ FromRow(j) # {}
               /\ \A i \in FromRow(j) : out[i].volume = Zero

\* C12 witness: a bar with an unparsable volume is output with volume 0, next to a
\* bar of another day.
C12_Witness ==
    /\ StockReturned
    /\ \E i \in 1..Len(out) :
          /\ raw[out[i].idx].volume = NoneCell
          /\ out[i].volume = Zero
    /\ Len(out) = 2

\* the product of two floats that are numbers, stated on numerators and denominators
IsProduct(c, a, b) == IsFin(c) /\ c.n * a.d * b.d = a.n * b.n * c.d

\* C13: for every portfolio row cost_basis = quantity * purchase_price (2 x 2500.00
\* gives 5000.00), no input row is dropped, and cost_basis is missing exactly when
\* quantity or purchase_price is missing or unparsable.
C13_CostBasis ==
    PortfolioReturned =>
        /\ Len(out) = Len(raw)
        /\ \A i \in 1..Len(out) :
              LET quantity == to_numeric(raw[i].quantity)
                  price == to_numeric(raw[i].purchase_price)
              IN  /\ out[i].idx = i
                  /\ out[i].symbol = raw[i].symbol
                  /\ IF IsNaN(quantity) \/ IsNaN(price) THEN IsNaN(out[i].cost_basis)
                     ELSE IsProduct(out[i].cost_basis, quantity, price)

\* C13 witness: two holdings, one of quantity 2 at 2500 with cost basis 5000 and one
\* of a missing quantity with a missing cost basis.
C13_Witness ==
    /\ PortfolioReturned
    /\ Len(out) = 2
    /\ \E i, j \in 1..2 :
          /\ raw[i].quantity = NumCell(2) /\ raw[i].purchase_price = NumCell(2500)
          /\ out[i].cost_basis = Fin(5000, 1)
          /\ raw[j].quantity = NoneCell /\ IsNaN(out[j].cost_basis)

\* the whole days of the time from instant day (midnight) to instant t, truncated
\* toward zero
TruncatedDays(day, t) ==
    LET quarters == t.n - day * t.d
    IN  IF quarters >= 0 THEN quarters \div t.d ELSE -((-quarters) \div t.d)

\* C14: holding_days is the whole days elapsed between purchase_date and the
\* processing instant, truncated toward zero: a purchase_date of the current day
\* gives 0, and so does one less than a full day from the instant, before or after it.
C14_HoldingDaysTruncated ==
    PortfolioReturned =>
        \A i \in 1..Len(out) :
            out[i].purchase_date.t = "ts" =>
                out[i].holding_days = Fin(TruncatedDays(out[i].purchase_date.n, now), 1)

\* C15: for a non-empty input with the expected columns of its domain, a row-level
\* bad value (an unparsable number, an unparsable date or timestamp, a missing or
\* non-text title) never makes a transform raise.
C15_RowLevelNeverRaises ==
    (raw # <<>> /\ Complete(raw, domain)) => pc # "raised"

\* C16: a structural failure, an empty dataset or a dataset lacking expected columns
\* of its domain, is reported to the caller as an error: the call does not return a
\* dataset.
C16_StructuralFailureRaises ==
    (pc # "ready" /\ (raw = <<>> \/ ~Complete(raw, domain))) => pc = "raised"

\* a cell of the caller's dataset holds the value it held before the call: the same
\* cell, or the float of the same number, or the missing float for a missing value
SameCell(before, after) ==
    \/ before = after
    \/ /\ "k" \in DOMAIN after
       /\ "t" \in DOMAIN before
       /\ \/ before.t = "num" /\ after = Fin(before.n, 1)
          \/ before.t = "none" /\ IsNaN(after)

\* C17: a transform has no side effect beyond the dataset it returns: after the call
\* the dataset the caller passed in has the same columns and the same cell values.
C17_NoSideEffect ==
    pc # "ready" =>
        /\ Len(df) = Len(raw)
        /\ \A i \in 1..Len(df) :
              /\ DOMAIN df[i] = DOMAIN raw[i]
              /\ \A c \in DOMAIN df[i] : SameCell(raw[i][c], df[i][c])

(***************************************************************************)
(* BigQueryLoader: the warehouse tables and the load methods.              *)
(*                                                                         *)
(* A table is the sequence of the rows it holds, in the order they were    *)
(* written; a row here is a name.  A load job either completes or fails,   *)
(* and a failed job writes nothing.                                        *)
(***************************************************************************)
TableNames ==
    {"stock_prices", "crypto_prices", "market_news", "user_portfolio", "pipeline_metrics"}

\* mutant of WriteTable: every job replaces the rows of the table
WriteTableTruncate(rows, data, write_disposition) == data

\* what a completed load job makes of the rows of its table
WriteTable(rows, data, write_disposition) ==
    IF write_disposition = "WRITE_TRUNCATE" THEN data ELSE rows \o data

\* load_data(df, table_name, write_disposition), called through method on the
\* warehouse tbls, the job completing (job_ok) or failing: the warehouse after the
\* call and the record of the call
load_data(tbls, method, data, table_name, write_disposition, job_ok) ==
    LET this == [method |-> method, table |-> table_name, df |-> data,
                 write_disposition |-> write_disposition]
    IN  IF data = <<>>
        THEN [tables |-> tbls,
              call |-> this @@ [job |-> "none", outcome |-> "returned", result |-> 0]]
        ELSE IF ~job_ok
        THEN [tables |-> tbls,
              call |-> this @@ [job |-> "failed", outcome |-> "raised", result |-> -1]]
        ELSE [tables |->
                  [tbls EXCEPT ![table_name] = WriteTable(@, data, write_disposition)],
              call |-> this @@
                  [job |-> "done", outcome |-> "returned", result |-> Len(data)]]

MaxLoadRows == 2
MaxWarehouseRows == 3

LoadRows == {"x", "y"}
Datasets == SeqsUpTo(LoadRows, MaxLoadRows)

RECURSIVE TotalRows(_, _)
TotalRows(tbls, names) ==
    IF names = {} THEN 0
    ELSE LET t == CHOOSE t \in names : TRUE
         IN  Len(tbls[t]) + TotalRows(tbls, names \ {t})

\* the warehouse of the model holds at most MaxWarehouseRows rows
Fits(data) == TotalRows(tables, TableNames) + Len(data) <= MaxWarehouseRows

Load(method, data, table_name, write_disposition, job_ok) ==
    /\ Fits(data)
    /\ tables' = load_data(tables, method, data, table_name, write_disposition, job_ok).tables
    /\ call' = load_data(tables, method, data, table_name, write_disposition, job_ok).call
    /\ UNCHANGED <<domain, raw, df, title_dtype, out, now, pc, session, dag>>

LoadStockPrices ==
    \E data \in Datasets, job_ok \in BOOLEAN :
        Load("load_stock_prices", data, "stock_prices", "WRITE_APPEND", job_ok)

LoadCryptoPrices ==
    \E data \in Datasets, job_ok \in BOOLEAN :
        Load("load_crypto_prices", data, "crypto_prices", "WRITE_APPEND", job_ok)

LoadNews ==
    \E data \in Datasets, job_ok \in BOOLEAN :
        Load("load_news", data, "market_news", "WRITE_APPEND", job_ok)

\* load_portfolio(df, write_disposition="WRITE_TRUNCATE")
LoadPortfolio ==
    \E data \in Datasets, job_ok \in BOOLEAN,
       write_disposition \in {"WRITE_TRUNCATE", "WRITE_APPEND"} :
        Load("load_portfolio", data, "user_portfolio", write_disposition, job_ok)

\* log_pipeline_metrics(metrics_dict): a dataset of the one row of metrics
LogPipelineMetrics ==
    \E job_ok \in BOOLEAN :
        Load("log_pipeline_metrics", <<"metrics">>, "pipeline_metrics", "WRITE_APPEND",
             job_ok)

InitLoader ==
    /\ domain = "load"
    /\ raw = <<>>
    /\ df = <<>>
    /\ title_dtype = "object"
    /\ out = <<>>
    /\ now = Today
    /\ pc = "ready"
    /\ tables = [t \in TableNames |-> <<>>]
    /\ call = NoCall
    /\ session = NoSession
    /\ dag = NoDag

NextLoader ==
    LoadStockPrices \/ LoadCryptoPrices \/ LoadNews \/ LoadPortfolio \/ LogPipelineMetrics

SpecLoader == InitLoader /\ [][NextLoader]_vars

(***************************************************************************)
(* Claims about the loader.                                                *)
(***************************************************************************)
\* C18: the portfolio load is a full snapshot: after load_portfolio(df) returns
\* without raising, user_portfolio holds exactly the rows of df and none of the rows
\* it held before.
C18_PortfolioSnapshot ==
    ( /\ call.method = "load_portfolio"
      /\ call.write_disposition = "WRITE_TRUNCATE"
      /\ call.outcome = "returned" )
    => tables["user_portfolio"] = call.df

IsPrefix(s, t) == Len(s) <= Len(t) /\ SubSeq(t, 1, Len(s)) = s

TimeSeriesTables == {"stock_prices", "crypto_prices", "market_news"}
TimeSeriesLoads == {"load_stock_prices", "load_crypto_prices", "load_news"}

\* C19: the time-series tables are append-only: no call removes or changes a row
\* that stock_prices, crypto_prices or market_news holds; a call of load_stock_prices,
\* load_crypto_prices or load_news that succeeds adds exactly the rows of its dataset
\* and returns their number; a persistence failure is raised to the caller.
C19_AppendOnly ==
    [][ /\ \A t \in TimeSeriesTables : IsPrefix(tables[t], tables'[t])
        /\ call'.method \in TimeSeriesLoads =>
              /\ call'.job = "failed" <=> call'.outcome = "raised"
              /\ IF call'.outcome = "returned"
                 THEN /\ tables'[call'.table] = tables[call'.table] \o call'.df
                      /\ call'.result = Len(call'.df)
                 ELSE tables' = tables
              /\ \A t \in TableNames \ {call'.table} : tables'[t] = tables[t] ]_vars

\* C19 witness: load_news has returned 2 after adding two rows to a market_news
\* that held a row.
C19_Witness ==
    /\ call.method = "load_news"
    /\ call.outcome = "returned"
    /\ call.result = 2
    /\ Len(tables["market_news"]) = 3
    /\ SubSeq(tables["market_news"], 2, 3) = call.df

(***************************************************************************)
(* One DataTransformer and four datasets, one of each domain: the four     *)
(* transforms are called on it once each, in any order.  DataTransformer   *)
(* has no attributes; a call reads and assigns the dataset it is given.    *)
(***************************************************************************)
\* transformer.transform_<d>_data(f) at time t
Call(d, f, t) ==
    IF d = "stock" THEN CallStock(f, t)
    ELSE IF d = "crypto" THEN CallCrypto(f, t)
    ELSE IF d = "news" THEN CallNews(f, "object", t)
    ELSE CallPortfolio(f, t)

\* mutant of Bind: one dataset object shared by the four calls, so that what a call
\* assigns into its dataset is what the next call is given
BindSharedFrame(s, d, r) ==
    [e \in DOMAIN s |->
        IF e = d THEN [raw |-> s[e].raw, df |-> r.df, out |-> r.out, pc |-> r.pc]
        ELSE [s[e] EXCEPT !.df = r.df]]

\* the call of domain d leaves its results in the datasets of domain d: the caller's
\* <d>_df, assigned into by the call, and <d>_transformed, the dataset returned
Bind(s, d, r) ==
    [s EXCEPT ![d] = [raw |-> @.raw, df |-> r.df, out |-> r.out, pc |-> r.pc]]

SessionTransform(d) ==
    /\ domain = "all"
    /\ session[d].pc = "ready"
    /\ session' = Bind(session, d, Call(d, session[d].df, now))
    /\ UNCHANGED <<domain, raw, df, title_dtype, out, now, pc, tables, call, dag>>

SessionStock == SessionTransform("stock")
SessionCrypto == SessionTransform("crypto")
SessionNews == SessionTransform("news")
SessionPortfolio == SessionTransform("portfolio")

\* a row of each domain with a value its transform coerces to missing, and one with
\* a date that does not parse
MissingRow(d) ==
    IF d = "stock"
    THEN StockRow("AAPL", TsCell(2), NumCell(100), NumCell(110), NumCell(90),
                  NumCell(100), StrCell("abc"))
    ELSE IF d = "crypto" THEN CryptoRow(TsCell(1), "ethereum", NoneCell, NumCell(5))
    ELSE IF d = "news"
    THEN NewsRow("AAPL", Title(<<"l", "o", "s", "s">>), "https://www.marketwatch.com/b",
                 "MarketWatch", TsCell(2))
    ELSE PortfolioRow("AAPL", NoneCell, NumCell(2500), TsCell(Today + 1), "stock")

UndatedRow(d) ==
    IF d = "stock" THEN [RegularRow(d) EXCEPT !.date = StrCell("n/a")]
    ELSE IF d = "crypto" THEN [RegularRow(d) EXCEPT !.timestamp = StrCell("n/a")]
    ELSE IF d = "news" THEN [RegularRow(d) EXCEPT !.title = NumTitle]
    ELSE [RegularRow(d) EXCEPT !.purchase_date = StrCell("n/a")]

SessionInputs(d) ==
    { <<>>,
      WithIndex(<<RegularRow(d)>>),
      WithIndex(<<RegularRow(d), MissingRow(d)>>),
      WithIndex(<<UndatedRow(d)>>) }

InitSession ==
    /\ domain = "all"
    /\ raw = <<>>
    /\ df = <<>>
    /\ title_dtype = "object"
    /\ out = <<>>
    /\ now \in Instants
    /\ pc = "ready"
    /\ tables = NoTables /\ call = NoCall /\ dag = NoDag
    /\ \E inputs \in [Domains -> UNION {SessionInputs(d) : d \in Domains}] :
          /\ \A d \in Domains : inputs[d] \in SessionInputs(d)
          /\ session =
                [d \in Domains |->
                    [raw |-> inputs[d], df |-> inputs[d], out |-> <<>>, pc |-> "ready"]]

NextSession == SessionStock \/ SessionCrypto \/ SessionNews \/ SessionPortfolio

SpecSession == InitSession /\ [][NextSession]_vars

Reordered(f, p) == [j \in 1..Len(f) |-> f[p[j]]]

\* C21: the stock indicators do not depend on the input row order: for two inputs
\* that hold the same rows (no duplicate (symbol, date)) in a different row order,
\* every (symbol, date) row gets the same daily_return, ma_7, ma_30 and
\* volatility_30d.
C21_RowOrderIndependent ==
    (StockReturned /\ CleanStock(raw)) =>
        \A p \in Permutations(1..Len(raw)) :
            LET other == transform_stock_data(Reordered(raw, p), now)
            IN  \A i \in 1..Len(out) : \A k \in 1..Len(other) :
                    OutKey(out[i]) = OutKey(other[k]) =>
                        /\ out[i].daily_return = other[k].daily_return
                        /\ out[i].ma_7 = other[k].ma_7
                        /\ out[i].ma_30 = other[k].ma_30
                        /\ out[i].volatility_30d = other[k].volatility_30d

(***************************************************************************)
(* Batches of bars of two symbols, the bars of the second symbol regular   *)
(* or irregular.                                                           *)
(***************************************************************************)
MaxSymbolRows == 3

MixedRows ==
    { StockRow("AAPL", TsCell(d), NumCell(100), NumCell(110), NumCell(90), c, NumCell(7)) :
        d \in 1..2, c \in {NumCell(100), StrCell("105")} }
    \cup
    { StockRow("MSFT", d, NumCell(100), NumCell(110), NumCell(90), c, NumCell(7)) :
        d \in {TsCell(1), StrCell("n/a")}, c \in {NumCell(100), NumCell(-5)} }

SymbolInputs == {WithIndex(rows) : rows \in SeqsUpTo(MixedRows, MaxSymbolRows)}

InitSymbols ==
    /\ domain = "stock"
    /\ raw \in SymbolInputs
    /\ df = raw
    /\ title_dtype = "object"
    /\ out = <<>>
    /\ now = Today
    /\ pc = "ready"
    /\ tables = NoTables /\ call = NoCall /\ session = NoSession /\ dag = NoDag

SpecSymbols == InitSymbols /\ [][NextStock]_vars

\* the rows of a symbol, in row order
OfSymbol(f, sym) == SelectSeq(f, LAMBDA r : r.symbol = sym)

\* what the claim compares of an output row
Indicators(o) ==
    <<o.symbol, o.date, o.idx, o.daily_return, o.ma_7, o.ma_30, o.volatility_30d,
      o.price_range, o.price_change, o.price_change_pct>>

IndicatorsOf(f, sym) ==
    [i \in 1..Len(OfSymbol(f, sym)) |-> Indicators(OfSymbol(f, sym)[i])]

\* C22: no cross-symbol interaction in transform_stock_data: adding, removing or
\* changing input rows of a symbol B changes neither which rows of another symbol A
\* are output nor their daily_return, ma_7, ma_30, volatility_30d, price_range,
\* price_change or price_change_pct: the rows of A are output as they are for the
\* input without the rows of other symbols.
C22_NoCrossSymbolInteraction ==
    (domain = "stock" /\ pc # "ready") =>
        \A sym \in Symbols :
            LET alone == CallStock(OfSymbol(raw, sym), now)
            IN  (OfSymbol(raw, sym) # <<>> /\ alone.pc = "returned") =>
                    /\ pc = "returned"
                    /\ IndicatorsOf(out, sym) = IndicatorsOf(alone.out, sym)

\* the daily returns of the input rows at the positions w, a trailing window of the
\* positions g of a symbol's input rows with a close: the return of a row is relative
\* to the row before it in g, and missing for the first row of g
InputReturns(g, w) ==
    [j \in 1..Len(w) |->
        LET at == Len(g) - Len(w) + j
        IN  IF at = 1 THEN NaN
            ELSE FSub(FDiv(RawClose(raw[g[at]]), RawClose(raw[g[at - 1]])), Fin(1, 1))]

Defined(s) == Len(SelectSeq(s, LAMBDA a : ~IsNaN(a)))

\* C23: volatility_30d is the deviation of the defined daily_return values among a
\* symbol's trailing 30 rows, missing (never zero) when that window holds fewer than
\* two defined values: it is missing for a symbol's first and second rows and defined
\* from the third row on when the closes are valid.  The rows of a symbol are its
\* input rows that have a close, in input order: the series the indicators are
\* computed on.
C23_VolatilityOverInputRows ==
    StockReturned =>
        \A i \in 1..Len(out) :
            LET g == RawGroup(i)
                w == Trailing(g, 30)
                returns == InputReturns(g, w)
            IN  /\ out[i].volatility_30d = Std(returns)
                /\ Defined(returns) < 2 => IsNaN(out[i].volatility_30d)
                /\ Len(g) <= 2 => IsNaN(out[i].volatility_30d)
                /\ (Len(g) >= 3 /\ \A j \in 1..Len(w) : RawClose(raw[w[j]]) # Zero) =>
                      ~IsNaN(out[i].volatility_30d)

\* C23 witness: a series of 30 rows and more whose second row is output with a
\* missing volatility_30d and whose third row is output with a volatility_30d, the
\* first row of the series having a close.
C23_Witness ==
    /\ StockReturned
    /\ Len(out) >= 30
    /\ out[1].idx = 2 /\ IsNaN(out[1].volatility_30d)
    /\ out[2].idx = 3 /\ ~IsNaN(out[2].volatility_30d)
    /\ out[2].symbol = out[1].symbol /\ raw[1].symbol = out[1].symbol
    /\ ~IsNaN(RawClose(raw[1]))

\* C24: every row transform_crypto_data outputs has a price_category that is one of
\* low, medium, high, very_high and never missing, a row with price_usd = 0 (what the
\* extractor puts for a price the API omits) included.
C24_CategoryNeverMissing ==
    CryptoReturned =>
        \A i \in 1..Len(out) :
            out[i].price_category \in {StrCell(Labels[b]) : b \in 1..Len(Labels)}

(***************************************************************************)
(* The DAG financial_market_etl_pipeline (dags/financial_etl_dag.py).      *)
(* dag is the record of the runs:                                          *)
(*   state   task -> "none", "up_for_retry", "success", "failed",          *)
(*                   "upstream_failed"                                     *)
(*   tries   task -> attempts made in this run                             *)
(*   files   the files of TEMP_DIR, which outlive a run unless             *)
(*           cleanup_temp_files has run                                    *)
(*   xcom    the values pushed in this run (-1: not pushed)                *)
(*   yielded what each source gave at the last attempt of its extract task *)
(*   calls   the loader calls load_to_bigquery made in this run            *)
(*   before  the warehouse when the run started                            *)
(* An attempt of a task is one step: the tasks of a run that touch the     *)
(* same file or table are ordered by the dependencies, and runs do not     *)
(* overlap.  The rows of a dataset are tokens [run, domain, n, stage]: run *)
(* is "this" for a row extracted in the current run and "earlier" for one  *)
(* extracted in a run before it; the row-level work of the transformer is  *)
(* the subject of the specifications above and is here the change of stage *)
(* from "raw" to "transformed".  When a run starts, the rows the earlier   *)
(* runs left in a table are kept as one row standing for all of them.      *)
(***************************************************************************)
Retries == 3
MaxExtractRows == 1

Tasks ==
    {"setup_temp_directory", "extract_stock_data", "extract_crypto_data",
     "extract_news_data", "extract_portfolio_data", "transform_all_data",
     "load_to_bigquery", "cleanup_temp_files", "generate_summary_report"}

ExtractTasks ==
    {"extract_stock_data", "extract_crypto_data", "extract_news_data",
     "extract_portfolio_data"}

\* mutant of Upstream: load_to_bigquery waits for the extract tasks only
UpstreamLoadAfterExtracts(t) ==
    CASE t = "setup_temp_directory" -> {}
      [] t \in ExtractTasks -> {"setup_temp_directory"}
      [] t = "transform_all_data" -> ExtractTasks
      [] t = "load_to_bigquery" -> ExtractTasks
      [] t = "cleanup_temp_files" -> {"load_to_bigquery"}
      [] t = "generate_summary_report" -> {"cleanup_temp_files"}

\* the task dependencies: the tasks directly upstream of t
Upstream(t) ==
    CASE t = "setup_temp_directory" -> {}
      [] t \in ExtractTasks -> {"setup_temp_directory"}
      [] t = "transform_all_data" -> ExtractTasks
      [] t = "load_to_bigquery" -> {"transform_all_data"}
      [] t = "cleanup_temp_files" -> {"load_to_bigquery"}
      [] t = "generate_summary_report" -> {"cleanup_temp_files"}

FileNames ==
    {"stock_data.csv", "crypto_data.csv", "news_data.csv", "portfolio_data.csv",
     "stock_transformed.csv", "crypto_transformed.csv", "news_transformed.csv",
     "portfolio_transformed.csv"}

XComKeys ==
    {"stock_count", "crypto_count", "news_count", "portfolio_count",
     "total_loaded", "stock_loaded", "crypto_loaded", "news_loaded"}

\* a file of TEMP_DIR: absent, the CSV of a DataFrame without columns (one empty
\* line), or the CSV of a DataFrame with columns and rows
Absent == [kind |-> "absent", rows |-> <<>>]
NoColumns == [kind |-> "nocolumns", rows |-> <<>>]
Csv(rows) == [kind |-> "csv", rows |-> rows]

\* what a source hands to its extract task: an error, a DataFrame without
\* columns (pd.DataFrame()), or a DataFrame of rows
SourceError == [kind |-> "error", rows |-> <<>>]
NoData == [kind |-> "nodata", rows |-> <<>>]
Frame(rows) == [kind |-> "frame", rows |-> rows]

\* frame.to_csv(path, index=False)
to_csv(files, name, frame) ==
    [files EXCEPT ![name] = IF frame.kind = "frame" THEN Csv(frame.rows) ELSE NoColumns]

\* pd.read_csv(path): FileNotFoundError for a missing file, EmptyDataError for a
\* file without columns
read_csv(files, name) ==
    IF files[name].kind = "csv"
    THEN [raised |-> FALSE, rows |-> files[name].rows]
    ELSE [raised |-> TRUE, rows |-> <<>>]

\* the n rows a source of domain d gives in the current run
SourceRows(d, n) ==
    [k \in 1..n |-> [run |-> "this", domain |-> d, n |-> k, stage |-> "raw"]]

\* rows of the current run, seen from the next run
Earlier(rows) == [k \in 1..Len(rows) |-> [rows[k] EXCEPT !.run = "earlier"]]

\* the warehouse as the next run finds it
Settled(tbls) ==
    [t \in TableNames |->
        IF tbls[t] = <<>> THEN <<>>
        ELSE <<[run |-> "earlier", domain |-> t, n |-> 0, stage |-> "loaded"]>>]

\* the transformer applied to the rows read from a file
Transformed(rows) == [k \in 1..Len(rows) |-> [rows[k] EXCEPT !.stage = "transformed"]]

NoXCom == [k \in XComKeys |-> -1]

\* a run with nothing run yet, the temp directory holding files and the
\* warehouse being tbls
NewRun(files, tbls) ==
    [state |-> [t \in Tasks |-> "none"],
     tries |-> [t \in Tasks |-> 0],
     files |-> files,
     xcom |-> NoXCom,
     yielded |-> [t \in ExtractTasks |-> NoData],
     calls |-> {},
     before |-> tbls]

\* the first run: an empty temp directory, the tables created empty
FirstRun == NewRun([f \in FileNames |-> Absent], [t \in TableNames |-> <<>>])

\* the scheduler runs a task whose upstream tasks all succeeded (trigger rule
\* all_success), for the first time or again after a failed attempt
Runnable(t) ==
    /\ dag.state[t] \in {"none", "up_for_retry"}
    /\ \A u \in Upstream(t) : dag.state[u] = "success"

\* the record of the run after an attempt of t: 'retries': 3 gives a failed task
\* three more attempts
Attempted(d, t, ok) ==
    [d EXCEPT !.tries[t] = @ + 1,
              !.state[t] = IF ok THEN "success"
                           ELSE IF d.tries[t] >= Retries THEN "failed"
                           ELSE "up_for_retry"]

\* setup_temp_dir(): os.makedirs(TEMP_DIR, exist_ok=True) keeps the files
setup_temp_dir(d) == Attempted(d, "setup_temp_directory", TRUE)

\* mutant of extract_stock_data: the file is written whatever was extracted
extract_stock_data_unchecked(d, frame) ==
    Attempted([d EXCEPT !.yielded["extract_stock_data"] = frame,
                        !.files = to_csv(@, "stock_data.csv", frame),
                        !.xcom["stock_count"] = Len(frame.rows)],
              "extract_stock_data", TRUE)

\* extract_stock_data(**context): ValueError before the file is written when
\* nothing was extracted
extract_stock_data(d, frame) ==
    IF frame.rows = <<>>
    THEN Attempted([d EXCEPT !.yielded["extract_stock_data"] = frame],
                   "extract_stock_data", FALSE)
    ELSE Attempted([d EXCEPT !.yielded["extract_stock_data"] = frame,
                             !.files = to_csv(@, "stock_data.csv", frame),
                             !.xcom["stock_count"] = Len(frame.rows)],
                   "extract_stock_data", TRUE)

\* extract_crypto_data(**context): as for the stocks
extract_crypto_data(d, frame) ==
    IF frame.rows = <<>>
    THEN Attempted([d EXCEPT !.yielded["extract_crypto_data"] = frame],
                   "extract_crypto_data", FALSE)
    ELSE Attempted([d EXCEPT !.yielded["extract_crypto_data"] = frame,
                             !.files = to_csv(@, "crypto_data.csv", frame),
                             !.xcom["crypto_count"] = Len(frame.rows)],
                   "extract_crypto_data", TRUE)

\* extract_news_data(**context): without an article news_df = pd.DataFrame(), and
\* the file is written in every case
extract_news_data(d, frame) ==
    Attempted([d EXCEPT !.yielded["extract_news_data"] = frame,
                        !.files = to_csv(@, "news_data.csv", frame),
                        !.xcom["news_count"] = Len(frame.rows)],
              "extract_news_data", TRUE)

\* extract_portfolio_data(**context): a failure of the database gives
\* pd.DataFrame() (portfolio_db.py) or the except branch of the task, which
\* write the same file and count
extract_portfolio_data(d, frame) ==
    Attempted([d EXCEPT !.yielded["extract_portfolio_data"] = frame,
                        !.files = to_csv(@, "portfolio_data.csv",
                                         IF frame.kind = "frame" THEN frame ELSE NoData),
                        !.xcom["portfolio_count"] =
                            IF frame.kind = "frame" THEN Len(frame.rows) ELSE 0],
              "extract_portfolio_data", TRUE)

\* transform_all_data(**context): the stock, crypto and news files are read
\* outside any try; the portfolio block is inside one
transform_all_data(d) ==
    LET task == "transform_all_data"
        stock_df == read_csv(d.files, "stock_data.csv")
        f1 == [d.files EXCEPT !["stock_transformed.csv"] = Csv(Transformed(stock_df.rows))]
        crypto_df == read_csv(f1, "crypto_data.csv")
        f2 == [f1 EXCEPT !["crypto_transformed.csv"] = Csv(Transformed(crypto_df.rows))]
        news_df == read_csv(f2, "news_data.csv")
        f3 == IF news_df.rows # <<>>
              THEN [f2 EXCEPT !["news_transformed.csv"] = Csv(Transformed(news_df.rows))]
              ELSE f2
        portfolio_df == read_csv(f3, "portfolio_data.csv")
        f4 == IF ~portfolio_df.raised /\ portfolio_df.rows # <<>>
              THEN [f3 EXCEPT !["portfolio_transformed.csv"] =
                                  Csv(Transformed(portfolio_df.rows))]
              ELSE f3
    IN  IF stock_df.raised THEN Attempted(d, task, FALSE)
        ELSE IF crypto_df.raised THEN Attempted([d EXCEPT !.files = f1], task, FALSE)
        ELSE IF news_df.raised THEN Attempted([d EXCEPT !.files = f2], task, FALSE)
        ELSE Attempted([d EXCEPT !.files = f4], task, TRUE)

\* the loader methods load_to_bigquery calls, in the order of the calls
LoaderMethods ==
    <<"load_stock_prices", "load_crypto_prices", "load_news", "load_portfolio",
      "log_pipeline_metrics">>

\* the call as kept in dag.calls
Made(c) == [method |-> c.method, df |-> c.df]

\* the metrics row of the current run
Metrics(total_loaded) ==
    <<[run |-> "this", domain |-> "metrics", n |-> total_loaded, stage |-> "metrics"]>>

\* load_to_bigquery(**context) on the warehouse tbls, the job of the method
\* failing (if any) not completing: the stock and crypto loads and the metrics
\* load are outside any try, the news and portfolio blocks inside one
load_to_bigquery(d, tbls, failing) ==
    LET task == "load_to_bigquery"
        stock_df == read_csv(d.files, "stock_transformed.csv")
        stock == load_data(tbls, "load_stock_prices", stock_df.rows, "stock_prices",
                           "WRITE_APPEND", failing # "load_stock_prices")
        d1 == [d EXCEPT !.calls = @ \cup {Made(stock.call)}]
        crypto_df == read_csv(d.files, "crypto_transformed.csv")
        crypto == load_data(stock.tables, "load_crypto_prices", crypto_df.rows,
                            "crypto_prices", "WRITE_APPEND", failing # "load_crypto_prices")
        d2 == [d1 EXCEPT !.calls = @ \cup {Made(crypto.call)}]
        news_df == read_csv(d.files, "news_transformed.csv")
        news_called == ~news_df.raised /\ news_df.rows # <<>>
        news == IF news_called
                THEN load_data(crypto.tables, "load_news", news_df.rows, "market_news",
                               "WRITE_APPEND", failing # "load_news")
                ELSE [tables |-> crypto.tables, call |-> NoCall]
        news_loaded == IF news_called /\ news.call.outcome = "returned"
                       THEN news.call.result ELSE 0
        d3 == IF news_called THEN [d2 EXCEPT !.calls = @ \cup {Made(news.call)}] ELSE d2
        portfolio_df == read_csv(d.files, "portfolio_transformed.csv")
        portfolio_called == ~portfolio_df.raised /\ portfolio_df.rows # <<>>
        portfolio == IF portfolio_called
                     THEN load_data(news.tables, "load_portfolio", portfolio_df.rows,
                                    "user_portfolio", "WRITE_TRUNCATE",
                                    failing # "load_portfolio")
                     ELSE [tables |-> news.tables, call |-> NoCall]
        portfolio_loaded == IF portfolio_called /\ portfolio.call.outcome = "returned"
                            THEN portfolio.call.result ELSE 0
        d4 == IF portfolio_called
              THEN [d3 EXCEPT !.calls = @ \cup {Made(portfolio.call)}] ELSE d3
        total_loaded == stock.call.result + crypto.call.result + news_loaded
                            + portfolio_loaded
        metrics == load_data(portfolio.tables, "log_pipeline_metrics",
                             Metrics(total_loaded), "pipeline_metrics",
                             "WRITE_APPEND", failing # "log_pipeline_metrics")
        d5 == [d4 EXCEPT !.calls = @ \cup {Made(metrics.call)}]
    IN  IF stock_df.raised
        THEN [dag |-> Attempted(d, task, FALSE), tables |-> tbls]
        ELSE IF stock.call.outcome = "raised"
        THEN [dag |-> Attempted(d1, task, FALSE), tables |-> stock.tables]
        ELSE IF crypto_df.raised
        THEN [dag |-> Attempted(d1, task, FALSE), tables |-> stock.tables]
        ELSE IF crypto.call.outcome = "raised"
        THEN [dag |-> Attempted(d2, task, FALSE), tables |-> crypto.tables]
        ELSE IF metrics.call.outcome = "raised"
        THEN [dag |-> Attempted(d5, task, FALSE), tables |-> metrics.tables]
        ELSE [dag |-> Attempted([d5 EXCEPT !.xcom["total_loaded"] = total_loaded,
                                           !.xcom["stock_loaded"] = stock.call.result,
                                           !.xcom["crypto_loaded"] = crypto.call.result,
                                           !.xcom["news_loaded"] = news_loaded],
                                task, TRUE),
              tables |-> metrics.tables]

\* cleanup_temp_files(): shutil.rmtree(TEMP_DIR), then the directory again
cleanup_temp_files(d) ==
    Attempted([d EXCEPT !.files = [f \in FileNames |-> Absent]],
              "cleanup_temp_files", TRUE)

\* generate_summary(**context): pulls the counts and writes the summary
generate_summary(d) == Attempted(d, "generate_summary_report", TRUE)

\* what the sources can give to an attempt
StockYields == {NoData, Frame(SourceRows("stock", MaxExtractRows))}
CryptoYields == {NoData, Frame(SourceRows("crypto", MaxExtractRows))}
NewsYields == {NoData, Frame(SourceRows("news", MaxExtractRows))}
PortfolioYields ==
    {SourceError, Frame(<<>>), Frame(SourceRows("portfolio", MaxExtractRows))}

\* the methods whose job can fail in an attempt of load_to_bigquery
FailingJobs == {"none"} \cup {LoaderMethods[k] : k \in 1..Len(LoaderMethods)}

DagStep(d) ==
    /\ dag' = d
    /\ UNCHANGED <<domain, raw, df, title_dtype, out, now, pc, tables, call, session>>

SetupTempDir ==
    /\ Runnable("setup_temp_directory")
    /\ DagStep(setup_temp_dir(dag))

ExtractStockData ==
    /\ Runnable("extract_stock_data")
    /\ \E frame \in StockYields : DagStep(extract_stock_data(dag, frame))

ExtractCryptoData ==
    /\ Runnable("extract_crypto_data")
    /\ \E frame \in CryptoYields : DagStep(extract_crypto_data(dag, frame))

ExtractNewsData ==
    /\ Runnable("extract_news_data")
    /\ \E frame \in NewsYields : DagStep(extract_news_data(dag, frame))

ExtractPortfolioData ==
    /\ Runnable("extract_portfolio_data")
    /\ \E frame \in PortfolioYields : DagStep(extract_portfolio_data(dag, frame))

TransformAllData ==
    /\ Runnable("transform_all_data")
    /\ DagStep(transform_all_data(dag))

LoadToBigquery ==
    /\ Runnable("load_to_bigquery")
    /\ \E failing \in FailingJobs :
        /\ dag' = load_to_bigquery(dag, tables, failing).dag
        /\ tables' = load_to_bigquery(dag, tables, failing).tables
    /\ UNCHANGED <<domain, raw, df, title_dtype, out, now, pc, call, session>>

CleanupTempFiles ==
    /\ Runnable("cleanup_temp_files")
    /\ DagStep(cleanup_temp_files(dag))

GenerateSummary ==
    /\ Runnable("generate_summary_report")
    /\ DagStep(generate_summary(dag))

\* a task downstream of a failed task is never run in this run
MarkUpstreamFailed ==
    \E t \in Tasks :
        /\ dag.state[t] = "none"
        /\ \E u \in Upstream(t) : dag.state[u] \in {"failed", "upstream_failed"}
        /\ DagStep([dag EXCEPT !.state[t] = "upstream_failed"])

RunOver == \A t \in Tasks : dag.state[t] \in {"success", "failed", "upstream_failed"}

\* the next scheduled run: new task instances, the same TEMP_DIR and warehouse
StartRun ==
    /\ RunOver
    /\ dag' = NewRun([f \in FileNames |-> [dag.files[f] EXCEPT !.rows = Earlier(@)]],
                     Settled(tables))
    /\ tables' = Settled(tables)
    /\ UNCHANGED <<domain, raw, df, title_dtype, out, now, pc, call, session>>

InitDag ==
    /\ domain = "dag"
    /\ raw = <<>>
    /\ df = <<>>
    /\ title_dtype = "object"
    /\ out = <<>>
    /\ now = Today
    /\ pc = "ready"
    /\ tables = [t \in TableNames |-> <<>>]
    /\ call = NoCall
    /\ session = NoSession
    /\ dag = FirstRun

NextDag ==
    \/ SetupTempDir
    \/ ExtractStockData
    \/ ExtractCryptoData
    \/ ExtractNewsData
    \/ ExtractPortfolioData
    \/ TransformAllData
    \/ LoadToBigquery
    \/ CleanupTempFiles
    \/ GenerateSummary
    \/ MarkUpstreamFailed
    \/ StartRun

SpecDag == InitDag /\ [][NextDag]_vars

(***************************************************************************)
(* Claims about the runs of the DAG.                                       *)
(***************************************************************************)
\* the positions of table name holding the row r
Copies(name, r) == {i \in 1..Len(tables[name]) : tables[name][i] = r}

\* C25: within one run of the DAG every transformed stock row and every
\* transformed crypto row is in its table at most once, whatever attempts of
\* load_to_bigquery failed and were retried.
C25_AppendedAtMostOncePerRun ==
    domain = "dag" =>
        \A name \in {"stock_prices", "crypto_prices"} :
            \A i \in 1..Len(tables[name]) :
                tables[name][i].run = "this" =>
                    Cardinality(Copies(name, tables[name][i])) = 1

\* the rows of a dataset were all extracted in the current run
OfThisRun(rows) == \A k \in 1..Len(rows) : rows[k].run = "this"

\* C26: every dataset load_to_bigquery hands to the loader in a run was written
\* by transform_all_data in that run: a news_transformed.csv or
\* portfolio_transformed.csv left by an earlier run is never loaded.
C26_LoadsOnlyThisRun ==
    domain = "dag" => \A c \in dag.calls : OfThisRun(c.df)

\* C27: when extract_news_data found no article (and wrote the empty dataset),
\* no attempt of transform_all_data fails.
C27_EmptyNewsDoesNotFailTransform ==
    (/\ domain = "dag"
     /\ dag.state["extract_news_data"] = "success"
     /\ dag.yielded["extract_news_data"].rows = <<>>) =>
        dag.state["transform_all_data"] \notin {"up_for_retry", "failed"}

\* C28: when the portfolio extraction failed, extract_portfolio_data succeeds
\* with portfolio_count 0, transform_all_data writes no portfolio file and does
\* not fail, and load_to_bigquery makes no call of load_portfolio.
C28_PortfolioFailureIsSkipped ==
    (/\ domain = "dag"
     /\ dag.tries["extract_portfolio_data"] > 0
     /\ dag.yielded["extract_portfolio_data"] = SourceError) =>
        /\ dag.state["extract_portfolio_data"] = "success"
        /\ dag.xcom["portfolio_count"] = 0
        /\ dag.files["portfolio_transformed.csv"].kind = "csv" =>
               ~OfThisRun(dag.files["portfolio_transformed.csv"].rows)
        /\ \A c \in dag.calls : c.method # "load_portfolio"

\* an attempt of task t was made in the current run
Started(t) == dag.tries[t] > 0

\* C29: transform_all_data is started only after all four extract tasks
\* succeeded, load_to_bigquery only after transform_all_data succeeded,
\* cleanup_temp_files only after load_to_bigquery succeeded and
\* generate_summary_report only after cleanup_temp_files succeeded; an extract
\* task waits for setup_temp_directory alone, never for another extract task.
C29_TaskOrdering ==
    domain = "dag" =>
        /\ Started("transform_all_data") =>
               \A t \in ExtractTasks : dag.state[t] = "success"
        /\ Started("load_to_bigquery") => dag.state["transform_all_data"] = "success"
        /\ Started("cleanup_temp_files") => dag.state["load_to_bigquery"] = "success"
        /\ Started("generate_summary_report") =>
               dag.state["cleanup_temp_files"] = "success"
        /\ \A t \in ExtractTasks :
               /\ Started(t) => dag.state["setup_temp_directory"] = "success"
               /\ (/\ dag.state["setup_temp_directory"] = "success"
                   /\ dag.state[t] \in {"none", "up_for_retry"}) => Runnable(t)

\* a run went through all its tasks after an earlier run had loaded rows
C29_Witness ==
    /\ domain = "dag"
    /\ \A t \in Tasks : dag.state[t] = "success"
    /\ dag.before["stock_prices"] # <<>>

\* the file an extract task writes
DataFile(t) == IF t = "extract_stock_data" THEN "stock_data.csv" ELSE "crypto_data.csv"

\* C30: an attempt of extract_stock_data or extract_crypto_data that extracted
\* no row fails without writing its file, and once the task has failed (its
\* retries exhausted) transform_all_data and load_to_bigquery are not run and
\* the warehouse is as the run found it.
C30_EmptyExtractionStopsTheRun ==
    domain = "dag" =>
        \A t \in {"extract_stock_data", "extract_crypto_data"} :
            /\ (Started(t) /\ dag.yielded[t].rows = <<>>) =>
                   /\ dag.state[t] \in {"up_for_retry", "failed"}
                   /\ dag.files[DataFile(t)].kind # "nocolumns"
                   /\ dag.files[DataFile(t)].kind = "csv" =>
                          ~OfThisRun(dag.files[DataFile(t)].rows)
            /\ dag.state[t] = "failed" =>
                   /\ dag.tries[t] = Retries + 1
                   /\ ~Started("transform_all_data")
                   /\ ~Started("load_to_bigquery")
                   /\ tables = dag.before

\* the stock extraction failed four times in a run that found rows in the
\* warehouse and a stock file of an earlier run, and the run is over
C30_Witness ==
    /\ domain = "dag"
    /\ dag.state["extract_stock_data"] = "failed"
    /\ RunOver
    /\ dag.files["stock_data.csv"].kind = "csv"
    /\ dag.before["stock_prices"] # <<>>
====
